---------------------------- MODULE Spec2Model ----------------------------
(***************************************************************************)
(* Model of autogen-subtitles.py: silence segmentation with a length       *)
(* ceiling, overlap padding, the chunk files on disk, the resume path and  *)
(* the per-chunk recognition loop.                                         *)
(*                                                                         *)
(* Audio.  An AudioSegment is a sequence of spans <<src, lo, hi>>: the     *)
(* milliseconds lo..hi-1 of the source src ("mix": the decoded track,      *)
(* "vocals": the isolated track, "silence": generated silence, lo = 0).    *)
(* Adjacent spans of one source are merged, so two segments hold the same  *)
(* audio exactly when they are equal.  All positions are milliseconds, as  *)
(* in pydub.                                                               *)
(***************************************************************************)
EXTENDS Integers, Sequences, FiniteSets, TLC

VARIABLES
    sys_argv,        \* the command line, script name first
    video,           \* duration in ms of the audio stream of the video file
    backend,         \* the conditions a vendor call can meet in this scenario
    temp_audio,      \* temp_audio.wav: "absent", "partial" or "complete"
    vocals_file,     \* the wav that split_audio_by_silence reads: [exists, audio]
    chunk_files,     \* the chunk*.wav files of the directory: name -> wav content
    pc,              \* position of the running process
    path,            \* branch taken at line 216: "none", "fresh" or "resume"
    exit_status,     \* "running", "ok", "usage", "exception" or "interrupted"
    runs,            \* processes started so far
    deleted,         \* chunk files removed from outside so far
    max_chunk_length,\* argument of split_audio_by_silence
    overlap_ms,      \* argument of split_audio_by_silence
    sound_file,      \* line 83
    silence_chunks,  \* what split_on_silence returned, line 84
    initial_chunks,  \* lines 84-89
    final_chunks,    \* lines 90-102
    chunk_files_sorted, \* lines 180-182
    audio_chunks,    \* line 219 or 221
    i,               \* loop index of recognize_audio_chunks
    stdout,          \* the labeled results printed by this process
    segmented,       \* history: the chunk sequence segmentation returned
    seg_done         \* history: segmentation has returned

vars == <<sys_argv, video, backend, temp_audio, vocals_file, chunk_files, pc,
          path, exit_status, runs, deleted, max_chunk_length, overlap_ms,
          sound_file, silence_chunks, initial_chunks, final_chunks,
          chunk_files_sorted, audio_chunks, i, stdout, segmented, seg_done>>

(***************************************************************************)
(* Bounds of the model.                                                    *)
(***************************************************************************)
MaxTrackLen == 6
MaxChunkLen == 3
MaxOverlap == 2
MaxCandidates == 3
MaxVideoLen == 3
MaxRuns == 2
MaxDeletes == 1
MaxStoreChunks == 12

(***************************************************************************)
(* Defaults of split_audio_by_silence.                                     *)
(***************************************************************************)
DefaultMaxChunkLength == 45000
DefaultOverlapMs == 500

Min(a, b) == IF a <= b THEN a ELSE b

(***************************************************************************)
(* AudioSegment.                                                           *)
(***************************************************************************)
Track(src, ms) == IF ms = 0 THEN <<>> ELSE << <<src, 0, ms>> >>

\* AudioSegment.silent(duration=ms)
Silent(ms) == Track("silence", ms)

RECURSIVE Dur(_)
\* len(segment), in ms
Dur(seg) ==
    IF seg = <<>> THEN 0
    ELSE (Head(seg)[3] - Head(seg)[2]) + Dur(Tail(seg))

\* a + b
Cat(a, b) ==
    IF a = <<>> THEN b
    ELSE IF b = <<>> THEN a
    ELSE LET x == a[Len(a)]
             y == b[1]
         IN  IF x[1] = y[1] /\ x[1] = "silence"
             THEN SubSeq(a, 1, Len(a) - 1)
                  \o << <<"silence", 0, x[3] + y[3]>> >> \o Tail(b)
             ELSE IF x[1] = y[1] /\ x[3] = y[2]
             THEN SubSeq(a, 1, Len(a) - 1)
                  \o << <<x[1], x[2], y[3]>> >> \o Tail(b)
             ELSE a \o b

RECURSIVE Take(_, _)
\* the first n ms of seg
Take(seg, n) ==
    IF n <= 0 \/ seg = <<>> THEN <<>>
    ELSE LET s == Head(seg)
             d == s[3] - s[2]
         IN  IF d <= n THEN <<s>> \o Take(Tail(seg), n - d)
             ELSE << <<s[1], s[2], s[2] + n>> >>

RECURSIVE Drop(_, _)
\* seg without its first n ms
Drop(seg, n) ==
    IF seg = <<>> THEN <<>>
    ELSE IF n <= 0 THEN seg
    ELSE LET s == Head(seg)
             d == s[3] - s[2]
         IN  IF d <= n THEN Drop(Tail(seg), n - d)
             ELSE IF s[1] = "silence"
             THEN << <<s[1], 0, d - n>> >> \o Tail(seg)
             ELSE << <<s[1], s[2] + n, s[3]>> >> \o Tail(seg)

\* AudioSegment._parse_position: a negative position counts from the end
ParsePosition(seg, val) == IF val < 0 THEN Dur(seg) - (0 - val) ELSE val

\* seg[start:end] of pydub: both clamped to len(seg), then parsed
Slice(seg, start, end) ==
    LET s == ParsePosition(seg, Min(start, Dur(seg)))
        e == ParsePosition(seg, Min(end, Dur(seg)))
    IN  Take(Drop(seg, s), e - s)

\* seg[start:]
SliceFrom(seg, start) == Slice(seg, start, Dur(seg))

RECURSIVE Concat(_)
\* the audio of a list of clips played one after the other
Concat(clips) ==
    IF clips = <<>> THEN <<>> ELSE Cat(Head(clips), Concat(Tail(clips)))

(***************************************************************************)
(* add_padding_to_chunks                                                   *)
(***************************************************************************)
\* line 58: previous_chunk[-min(len(previous_chunk), padding_duration_ms):]
Overlap(previous_chunk, padding_duration_ms) ==
    SliceFrom(previous_chunk,
              0 - Min(Dur(previous_chunk), padding_duration_ms))

add_padding_to_chunks(chunks, padding_duration_ms) ==
    [k \in 1..Len(chunks) |->
        IF k = 1
        THEN Cat(Silent(padding_duration_ms), chunks[k])
        ELSE Cat(Overlap(chunks[k - 1], padding_duration_ms), chunks[k])]

(***************************************************************************)
(* split_audio_by_silence                                                  *)
(***************************************************************************)
\* The cut positions split_on_silence is given to choose from: every ms of
\* a short track, the two ends of a long one.
CutPoints(ms) == IF ms <= MaxTrackLen THEN 0..ms ELSE {0, ms}

RECURSIVE CandidateRanges(_, _, _)
\* every list of at most m disjoint non-empty ranges, in temporal order
CandidateRanges(lo, points, m) ==
    {<<>>} \cup
    (IF m = 0 THEN {}
     ELSE UNION {UNION {{<< <<a, b>> >> \o rest :
                           rest \in CandidateRanges(b, points, m - 1)} :
                        b \in {p \in points : p > a}} :
                 a \in {p \in points : p >= lo}})

\* pydub.silence.split_on_silence is not part of the repository: any list of
\* non-empty clips of the track in temporal order, none when all is silence.
SplitOnSilenceResults(seg) ==
    {[k \in 1..Len(r) |-> Slice(seg, r[k][1], r[k][2])] :
        r \in CandidateRanges(0, CutPoints(Dur(seg)), MaxCandidates)}

\* lines 88-89
InitialChunks(split, sound) == IF split = <<>> THEN <<sound>> ELSE split

\* line 97
num_subchunks(chunk, max_len) == (Dur(chunk) \div max_len) + 1

start_ms_gap(k, max_len) == k * max_len + k

\* line 99; k counts from 0 as range() does
start_ms(k, max_len) == k * max_len

end_ms_overrun(k, max_len, chunk) == Min((k + 1) * max_len + 1, Dur(chunk))

\* line 100
end_ms(k, max_len, chunk) == Min((k + 1) * max_len, Dur(chunk))

\* lines 97-102
SubChunks(chunk, max_len) ==
    [k \in 1..num_subchunks(chunk, max_len) |->
        Slice(chunk, start_ms(k - 1, max_len), end_ms(k - 1, max_len, chunk))]

KeepsChunkWhole(chunk, max_len) == Dur(chunk) <= max_len

RECURSIVE FinalChunks(_, _)
\* lines 90-102
FinalChunks(chunks, max_len) ==
    IF chunks = <<>> THEN <<>>
    ELSE (IF KeepsChunkWhole(Head(chunks), max_len)
          THEN <<Head(chunks)>>
          ELSE SubChunks(Head(chunks), max_len))
         \o FinalChunks(Tail(chunks), max_len)

\* split_audio_by_silence, lines 83-104
SplitAudioBySilence ==
    /\ pc = "segment"
    /\ \E split \in SplitOnSilenceResults(vocals_file.audio) :
         LET initial == InitialChunks(split, vocals_file.audio)
             final == FinalChunks(initial, max_chunk_length)
             padded == add_padding_to_chunks(final, overlap_ms)
         IN  /\ sound_file' = vocals_file.audio
             /\ silence_chunks' = split
             /\ initial_chunks' = initial
             /\ final_chunks' = final
             /\ audio_chunks' = padded
             /\ segmented' = padded
    /\ seg_done' = TRUE
    /\ pc' = "dispatch"
    /\ i' = 0
    /\ UNCHANGED <<sys_argv, video, backend, temp_audio, vocals_file,
                   chunk_files, path, exit_status, runs, deleted,
                   max_chunk_length, overlap_ms, chunk_files_sorted, stdout>>

(***************************************************************************)
(* File names.  A name is its sequence of ASCII codes: "chunk" is           *)
(* 99 104 117 110 107, ".wav" is 46 119 97 118, the digits are 48..57.      *)
(***************************************************************************)
ChunkPrefix == <<99, 104, 117, 110, 107>>
WavSuffix == <<46, 119, 97, 118>>

RECURSIVE Str(_)
\* str(n) of a natural number: its decimal digits
Str(n) == IF n < 10 THEN <<48 + n>> ELSE Str(n \div 10) \o <<48 + (n % 10)>>

\* line 117: f"chunk{i}.wav"
ChunkFilePath(n) == ChunkPrefix \o Str(n) \o WavSuffix

RECURSIVE ParseInt(_)
\* int(digits)
ParseInt(digits) ==
    IF Len(digits) = 1 THEN digits[1] - 48
    ELSE 10 * ParseInt(SubSeq(digits, 1, Len(digits) - 1)) + (digits[Len(digits)] - 48)

\* line 181-182: int(os.path.splitext(os.path.basename(x))[0].replace('chunk', ''))
\* for a name chunk<digits>.wav of the directory itself
SortKey(x) == ParseInt(SubSeq(x, Len(ChunkPrefix) + 1, Len(x) - Len(WavSuffix)))

RECURSIVE LexLeq(_, _)
\* a <= b as Python compares two strings
LexLeq(a, b) ==
    IF a = <<>> THEN TRUE
    ELSE IF b = <<>> THEN FALSE
    ELSE IF Head(a) # Head(b) THEN Head(a) < Head(b)
    ELSE LexLeq(Tail(a), Tail(b))

KeyLeqByName(x, y) == LexLeq(x, y)

\* the order sorted(..., key=...) of line 181 puts two names in
KeyLeq(x, y) == SortKey(x) <= SortKey(y)

\* one step of a stable sort: x goes after every element not above it
InsertByKey(s, x) ==
    LET n == Cardinality({k \in 1..Len(s) : KeyLeq(s[k], x)})
    IN  SubSeq(s, 1, n) \o <<x>> \o SubSeq(s, n + 1, Len(s))

RECURSIVE Sorted(_)
\* sorted(chunk_files, key=...)
Sorted(files) ==
    IF files = <<>> THEN <<>>
    ELSE InsertByKey(Sorted(SubSeq(files, 1, Len(files) - 1)), files[Len(files)])

RECURSIVE SetToSeq(_)
SetToSeq(S) ==
    IF S = {} THEN <<>>
    ELSE LET x == CHOOSE y \in S : TRUE IN <<x>> \o SetToSeq(S \ {x})

Reverse(s) == [k \in 1..Len(s) |-> s[Len(s) + 1 - k]]

Rotate(s, r) == SubSeq(s, r + 1, Len(s)) \o SubSeq(s, 1, r)

\* line 180: glob.glob lists the matching names in an order of the file
\* system's choosing; every rotation of a listing and of its reverse is tried
GlobOrders(names) ==
    LET base == SetToSeq(names)
    IN  {Rotate(base, r) : r \in 0..Len(base)}
        \cup {Rotate(Reverse(base), r) : r \in 0..Len(base)}

\* chunk.export(path, format="wav")
Export(chunk) == [format |-> "wav", data |-> chunk]

\* AudioSegment.from_wav(path)
FromWav(file) == file.data

WriteFile(files, name, content) ==
    [n \in DOMAIN files \cup {name} |-> IF n = name THEN content ELSE files[n]]

RemoveFile(files, name) == [n \in DOMAIN files \ {name} |-> files[n]]

NoFiles == [n \in {} |-> Export(<<>>)]

(***************************************************************************)
(* The vendors.                                                            *)
(***************************************************************************)
\* What a vendor call can meet: the audio is recognised; the vendor cannot
\* put words to it; the vendor answers with an error (authentication,
\* quota); the vendor cannot be reached.
Conditions == {"ok", "unintelligible", "rejected", "unreachable"}

VendorNames == {"google", "google-cloud", "naver", "whisper"}

\* line 214
Vendor(argv) == IF Len(argv) < 3 THEN "google" ELSE argv[3]

\* transcribe_audio_naver, lines 124-140: requests.post raises its own
\* ConnectionError when the vendor cannot be reached; a status other than
\* 200 prints the code and returns None
transcribe_audio_naver(cond) ==
    CASE cond = "ok" -> [raised |-> "none", text |-> "text"]
      [] cond = "unintelligible" -> [raised |-> "none", text |-> ""]
      [] cond = "rejected" -> [raised |-> "none", text |-> "None"]
      [] cond = "unreachable" ->
            [raised |-> "requests.ConnectionError", text |-> ""]

\* recognize_google and recognize_google_cloud of speech_recognition raise
\* UnknownValueError and RequestError
SpeechRecognitionCall(cond) ==
    CASE cond = "ok" -> [raised |-> "none", text |-> "text"]
      [] cond = "unintelligible" -> [raised |-> "sr.UnknownValueError", text |-> ""]
      [] cond = "rejected" -> [raised |-> "sr.RequestError", text |-> ""]
      [] cond = "unreachable" -> [raised |-> "sr.RequestError", text |-> ""]

\* recognize_whisper runs a local model: no vendor is asked
WhisperCall(cond) ==
    IF cond = "unintelligible"
    THEN [raised |-> "none", text |-> ""]
    ELSE [raised |-> "none", text |-> "text"]

\* lines 149-164; the language tag is handed through to the vendor and
\* decides nothing here
VendorCall(vendor, cond) ==
    IF vendor = "google-cloud" THEN SpeechRecognitionCall(cond)
    ELSE IF vendor = "naver" THEN transcribe_audio_naver(cond)
    ELSE IF vendor = "whisper" THEN WhisperCall(cond)
    ELSE SpeechRecognitionCall(cond)

\* lines 166 and 168: the exceptions recognize_audio catches
Caught == {"sr.UnknownValueError", "sr.RequestError"}

\* lines 165-169: what recognize_audio prints after the prefix
Printed(outcome) ==
    CASE outcome.raised = "sr.UnknownValueError" -> "Unintelligible"
      [] outcome.raised = "sr.RequestError" -> "BackendUnavailable"
      [] OTHER -> IF outcome.text = "None" THEN "None" ELSE "Succeeded"

(***************************************************************************)
(* The run, lines 207-222.                                                 *)
(***************************************************************************)
\* lines 208-210
Usage ==
    /\ pc = "start"
    /\ Len(sys_argv) < 2
    /\ pc' = "exited"
    /\ exit_status' = "usage"
    /\ UNCHANGED <<sys_argv, video, backend, temp_audio, vocals_file,
                   chunk_files, path, runs, deleted, max_chunk_length,
                   overlap_ms, sound_file, silence_chunks, initial_chunks,
                   final_chunks, chunk_files_sorted, audio_chunks, i, stdout,
                   segmented, seg_done>>

\* lines 212-216, temp_audio.wav missing
TakeFreshPath ==
    /\ pc = "start"
    /\ Len(sys_argv) >= 2
    /\ temp_audio = "absent"
    /\ path' = "fresh"
    /\ pc' = "decode"
    /\ UNCHANGED <<sys_argv, video, backend, temp_audio, vocals_file,
                   chunk_files, exit_status, runs, deleted, max_chunk_length,
                   overlap_ms, sound_file, silence_chunks, initial_chunks,
                   final_chunks, chunk_files_sorted, audio_chunks, i, stdout,
                   segmented, seg_done>>

\* lines 212-216 and 220, temp_audio.wav present
TakeResumePath ==
    /\ pc = "start"
    /\ Len(sys_argv) >= 2
    /\ temp_audio # "absent"
    /\ path' = "resume"
    /\ pc' = "restore"
    /\ UNCHANGED <<sys_argv, video, backend, temp_audio, vocals_file,
                   chunk_files, exit_status, runs, deleted, max_chunk_length,
                   overlap_ms, sound_file, silence_chunks, initial_chunks,
                   final_chunks, chunk_files_sorted, audio_chunks, i, stdout,
                   segmented, seg_done>>

\* convert_video_to_audio, line 33: write_audiofile creates the file ...
OpenAudioFile ==
    /\ pc = "decode"
    /\ temp_audio' = "partial"
    /\ pc' = "decoding"
    /\ UNCHANGED <<sys_argv, video, backend, vocals_file, chunk_files, path,
                   exit_status, runs, deleted, max_chunk_length, overlap_ms,
                   sound_file, silence_chunks, initial_chunks, final_chunks,
                   chunk_files_sorted, audio_chunks, i, stdout, segmented,
                   seg_done>>

\* ... and fills it, lines 33-35
WriteAudioFile ==
    /\ pc = "decoding"
    /\ temp_audio' = "complete"
    /\ pc' = "separate"
    /\ UNCHANGED <<sys_argv, video, backend, vocals_file, chunk_files, path,
                   exit_status, runs, deleted, max_chunk_length, overlap_ms,
                   sound_file, silence_chunks, initial_chunks, final_chunks,
                   chunk_files_sorted, audio_chunks, i, stdout, segmented,
                   seg_done>>

\* spleeter keeps the timeline of the track it is given
Isolate(track) == [k \in 1..Len(track) |-> <<"vocals", track[k][2], track[k][3]>>]

\* separate_vocals, lines 188-204, then the call of line 219 with the
\* defaults of line 67
SeparateVocals ==
    /\ pc = "separate"
    /\ vocals_file' = IF vocals_file.exists THEN vocals_file
                      ELSE [exists |-> TRUE, audio |-> Isolate(Track("mix", video))]
    /\ max_chunk_length' = DefaultMaxChunkLength
    /\ overlap_ms' = DefaultOverlapMs
    /\ pc' = "segment"
    /\ UNCHANGED <<sys_argv, video, backend, temp_audio, chunk_files, path,
                   exit_status, runs, deleted, sound_file, silence_chunks,
                   initial_chunks, final_chunks, chunk_files_sorted,
                   audio_chunks, i, stdout, segmented, seg_done>>

\* find_existing_chunks, lines 172-186
FindExistingChunks ==
    /\ pc = "restore"
    /\ \E listing \in GlobOrders(DOMAIN chunk_files) :
         /\ chunk_files_sorted' = Sorted(listing)
         /\ audio_chunks' = [k \in 1..Len(listing) |->
                               FromWav(chunk_files[Sorted(listing)[k]])]
    /\ pc' = "dispatch"
    /\ i' = 0
    /\ UNCHANGED <<sys_argv, video, backend, temp_audio, vocals_file,
                   chunk_files, path, exit_status, runs, deleted,
                   max_chunk_length, overlap_ms, sound_file, silence_chunks,
                   initial_chunks, final_chunks, stdout, segmented, seg_done>>

\* recognize_audio_chunks, lines 115-118: the next chunk is exported
ExportChunk ==
    /\ pc = "dispatch"
    /\ i < Len(audio_chunks)
    /\ chunk_files' = WriteFile(chunk_files, ChunkFilePath(i),
                                Export(audio_chunks[i + 1]))
    /\ pc' = "recognize"
    /\ UNCHANGED <<sys_argv, video, backend, temp_audio, vocals_file, path,
                   exit_status, runs, deleted, max_chunk_length, overlap_ms,
                   sound_file, silence_chunks, initial_chunks, final_chunks,
                   chunk_files_sorted, audio_chunks, i, stdout, segmented,
                   seg_done>>

\* recognize_audio, lines 143-169, called at line 121 with the prefix "i: "
RecognizeAudio ==
    /\ pc = "recognize"
    /\ \E cond \in backend :
         LET outcome == VendorCall(Vendor(sys_argv), cond)
         IN  IF outcome.raised = "none" \/ outcome.raised \in Caught
             THEN /\ stdout' = Append(stdout,
                                      [label |-> i, result |-> Printed(outcome)])
                  /\ i' = i + 1
                  /\ pc' = "dispatch"
                  /\ UNCHANGED exit_status
             ELSE /\ pc' = "exited"
                  /\ exit_status' = "exception"
                  /\ UNCHANGED <<stdout, i>>
    /\ UNCHANGED <<sys_argv, video, backend, temp_audio, vocals_file,
                   chunk_files, path, runs, deleted, max_chunk_length,
                   overlap_ms, sound_file, silence_chunks, initial_chunks,
                   final_chunks, chunk_files_sorted, audio_chunks, segmented,
                   seg_done>>

\* the loop of line 115 is over: the script ends, exit status 0
Finish ==
    /\ pc = "dispatch"
    /\ i = Len(audio_chunks)
    /\ pc' = "exited"
    /\ exit_status' = "ok"
    /\ UNCHANGED <<sys_argv, video, backend, temp_audio, vocals_file,
                   chunk_files, path, runs, deleted, max_chunk_length,
                   overlap_ms, sound_file, silence_chunks, initial_chunks,
                   final_chunks, chunk_files_sorted, audio_chunks, i, stdout,
                   segmented, seg_done>>

\* the process is interrupted between two steps
Interrupt ==
    /\ pc \notin {"start", "exited"}
    /\ pc' = "exited"
    /\ exit_status' = "interrupted"
    /\ UNCHANGED <<sys_argv, video, backend, temp_audio, vocals_file,
                   chunk_files, path, runs, deleted, max_chunk_length,
                   overlap_ms, sound_file, silence_chunks, initial_chunks,
                   final_chunks, chunk_files_sorted, audio_chunks, i, stdout,
                   segmented, seg_done>>

\* the script is started again in the same directory on the same video
RunAgain ==
    /\ pc = "exited"
    /\ runs < MaxRuns
    /\ runs' = runs + 1
    /\ pc' = "start"
    /\ path' = "none"
    /\ exit_status' = "running"
    /\ sound_file' = <<>>
    /\ silence_chunks' = <<>>
    /\ initial_chunks' = <<>>
    /\ final_chunks' = <<>>
    /\ chunk_files_sorted' = <<>>
    /\ audio_chunks' = <<>>
    /\ i' = 0
    /\ stdout' = <<>>
    /\ UNCHANGED <<sys_argv, video, backend, temp_audio, vocals_file,
                   chunk_files, deleted, max_chunk_length, overlap_ms,
                   segmented, seg_done>>

\* between two runs somebody removes a chunk file
DeleteChunkFile ==
    /\ pc = "exited"
    /\ deleted < MaxDeletes
    /\ \E name \in DOMAIN chunk_files :
         chunk_files' = RemoveFile(chunk_files, name)
    /\ deleted' = deleted + 1
    /\ UNCHANGED <<sys_argv, video, backend, temp_audio, vocals_file, pc,
                   path, exit_status, runs, max_chunk_length, overlap_ms,
                   sound_file, silence_chunks, initial_chunks, final_chunks,
                   chunk_files_sorted, audio_chunks, i, stdout, segmented,
                   seg_done>>

CommandLines ==
    {<<"autogen-subtitles.py">>, <<"autogen-subtitles.py", "video.mp4">>}
    \cup {<<"autogen-subtitles.py", "video.mp4", v>> : v \in VendorNames}

\* the script is started in a directory that holds none of its files
Init ==
    /\ sys_argv \in CommandLines
    /\ video \in 1..MaxVideoLen
    /\ backend = Conditions
    /\ temp_audio = "absent"
    /\ vocals_file = [exists |-> FALSE, audio |-> <<>>]
    /\ chunk_files = NoFiles
    /\ pc = "start"
    /\ path = "none"
    /\ exit_status = "running"
    /\ runs = 1
    /\ deleted = 0
    /\ max_chunk_length = DefaultMaxChunkLength
    /\ overlap_ms = DefaultOverlapMs
    /\ sound_file = <<>>
    /\ silence_chunks = <<>>
    /\ initial_chunks = <<>>
    /\ final_chunks = <<>>
    /\ chunk_files_sorted = <<>>
    /\ audio_chunks = <<>>
    /\ i = 0
    /\ stdout = <<>>
    /\ segmented = <<>>
    /\ seg_done = FALSE

Next ==
    \/ Usage
    \/ TakeFreshPath
    \/ TakeResumePath
    \/ OpenAudioFile
    \/ WriteAudioFile
    \/ SeparateVocals
    \/ SplitAudioBySilence
    \/ FindExistingChunks
    \/ ExportChunk
    \/ RecognizeAudio
    \/ Finish
    \/ Interrupt
    \/ RunAgain
    \/ DeleteChunkFile

Spec == Init /\ [][Next]_vars

(***************************************************************************)
(* Segmentation alone: split_audio_by_silence called on every short track  *)
(* with every small ceiling and overlap, and on the 90 s and 130 s tracks  *)
(* with the defaults.                                                      *)
(***************************************************************************)
SegInputs ==
    {<<ms, m, o>> : ms \in 0..MaxTrackLen, m \in 1..MaxChunkLen, o \in 0..MaxOverlap}
    \cup {<<ms, DefaultMaxChunkLength, DefaultOverlapMs>> : ms \in {90000, 130000}}

InitSeg ==
    /\ \E inp \in SegInputs :
         /\ vocals_file = [exists |-> TRUE, audio |-> Track("vocals", inp[1])]
         /\ max_chunk_length = inp[2]
         /\ overlap_ms = inp[3]
    /\ sys_argv = <<"autogen-subtitles.py", "video.mp4">>
    /\ video = 0
    /\ backend = {"ok"}
    /\ temp_audio = "complete"
    /\ chunk_files = NoFiles
    /\ pc = "segment"
    /\ path = "fresh"
    /\ exit_status = "running"
    /\ runs = 1
    /\ deleted = 0
    /\ sound_file = <<>>
    /\ silence_chunks = <<>>
    /\ initial_chunks = <<>>
    /\ final_chunks = <<>>
    /\ chunk_files_sorted = <<>>
    /\ audio_chunks = <<>>
    /\ i = 0
    /\ stdout = <<>>
    /\ segmented = <<>>
    /\ seg_done = FALSE

NextSeg == SplitAudioBySilence

SpecSeg == InitSeg /\ [][NextSeg]_vars

(***************************************************************************)
(* Persisting and restoring alone: a first run that has just segmented a   *)
(* track of n clips of one width (shorter or longer than the overlap), in  *)
(* a directory without chunk files, with a vendor that always answers or   *)
(* never can be reached; later runs resume.                                *)
(***************************************************************************)
ClipWidths == {300, 1000}

EvenClips(track, n, w) == [k \in 1..n |-> Slice(track, (k - 1) * w, k * w)]

InitStore ==
    /\ \E n \in 1..MaxStoreChunks, w \in ClipWidths :
         LET track == Track("vocals", n * w)
             final == FinalChunks(EvenClips(track, n, w), DefaultMaxChunkLength)
             padded == add_padding_to_chunks(final, DefaultOverlapMs)
         IN  /\ video = n * w
             /\ vocals_file = [exists |-> TRUE, audio |-> track]
             /\ sound_file = track
             /\ silence_chunks = EvenClips(track, n, w)
             /\ initial_chunks = EvenClips(track, n, w)
             /\ final_chunks = final
             /\ audio_chunks = padded
             /\ segmented = padded
    /\ sys_argv \in {<<"autogen-subtitles.py", "video.mp4">>,
                     <<"autogen-subtitles.py", "video.mp4", "naver">>}
    /\ backend \in {{"ok"}, {"unreachable"}}
    /\ temp_audio = "complete"
    /\ chunk_files = NoFiles
    /\ pc = "dispatch"
    /\ path = "fresh"
    /\ exit_status = "running"
    /\ runs = 1
    /\ deleted = 0
    /\ max_chunk_length = DefaultMaxChunkLength
    /\ overlap_ms = DefaultOverlapMs
    /\ chunk_files_sorted = <<>>
    /\ i = 0
    /\ stdout = <<>>
    /\ seg_done = TRUE

NextStore ==
    \/ ExportChunk
    \/ RecognizeAudio
    \/ Finish
    \/ Interrupt
    \/ RunAgain
    \/ TakeResumePath
    \/ FindExistingChunks

SpecStore == InitStore /\ [][NextStore]_vars

(***************************************************************************)
(* Properties of segmentation and padding, checked under SpecSeg.          *)
(***************************************************************************)
\* split_audio_by_silence has returned in this process
Segmented == pc = "dispatch" /\ path = "fresh" /\ seg_done

Durations(clips) == [k \in 1..Len(clips) |-> Dur(clips[k])]

\* C6: every clip segmentation emits has an unpadded duration of at most
\* max_chunk_length; the 130000 ms track without silence, cut at 45000 ms,
\* gives the three clips of 45000, 45000 and 40000 ms in that order.
C6_ClipsWithinCeiling ==
    Segmented =>
        /\ \A k \in 1..Len(final_chunks) :
              Dur(final_chunks[k]) <= max_chunk_length
        /\ (/\ Dur(sound_file) = 130000
            /\ initial_chunks = <<sound_file>>
            /\ max_chunk_length = 45000)
           => Durations(final_chunks) = <<45000, 45000, 40000>>

C6_Witness ==
    /\ Segmented
    /\ Dur(sound_file) = 130000
    /\ initial_chunks = <<sound_file>>
    /\ max_chunk_length = 45000
    /\ Len(final_chunks) = 3

CeilDiv(a, b) == (a + b - 1) \div b

RECURSIVE ExpectedClipCount(_, _)
ExpectedClipCount(chunks, max_len) ==
    IF chunks = <<>> THEN 0
    ELSE (IF Dur(Head(chunks)) > max_len
          THEN CeilDiv(Dur(Head(chunks)), max_len)
          ELSE 1)
         + ExpectedClipCount(Tail(chunks), max_len)

\* C8: a candidate clip longer than max_chunk_length is cut into exactly
\* ceil(duration / max_chunk_length) sub-clips, also when the duration is an
\* exact multiple of max_chunk_length, and no sub-clip has duration 0.
C8_CeilSubclips ==
    Segmented =>
        /\ Len(final_chunks) = ExpectedClipCount(initial_chunks, max_chunk_length)
        /\ \A k \in 1..Len(final_chunks) :
              Dur(final_chunks[k]) = 0 => sound_file = <<>>

\* C10: segmentation drops and reorders nothing: the emitted clips played in
\* order are the candidate clips played in order, and when split_on_silence
\* returns no clip the whole track is the single candidate.
C10_NothingDropped ==
    Segmented =>
        /\ Concat(final_chunks) = Concat(initial_chunks)
        /\ silence_chunks # <<>> => initial_chunks = silence_chunks
        /\ silence_chunks = <<>> =>
              /\ initial_chunks = <<sound_file>>
              /\ Concat(final_chunks) = sound_file

C10_Witness ==
    /\ Segmented
    /\ Len(initial_chunks) = 2
    /\ Len(final_chunks) > 3
    /\ Dur(initial_chunks[1]) > max_chunk_length

\* the last ms milliseconds of clip
Trailing(clip, ms) == Drop(clip, Dur(clip) - ms)

\* C7: chunk 0 is padding_ms of silence followed by clip 0; chunk i > 0 is the
\* trailing min(padding_ms, duration(clip i-1)) ms of the unpadded clip i-1
\* followed by clip i, for every padding_ms >= 0.
C7_PaddingFromPredecessor ==
    Segmented =>
        /\ Len(audio_chunks) = Len(final_chunks)
        /\ \A k \in 1..Len(audio_chunks) :
              IF k = 1
              THEN audio_chunks[k] = Cat(Silent(overlap_ms), final_chunks[k])
              ELSE LET borrowed == Min(overlap_ms, Dur(final_chunks[k - 1]))
                   IN  /\ audio_chunks[k] =
                            Cat(Trailing(final_chunks[k - 1], borrowed),
                                final_chunks[k])
                       /\ Dur(audio_chunks[k]) = borrowed + Dur(final_chunks[k])

(***************************************************************************)
(* Properties of the chunk files and of the run.                           *)
(***************************************************************************)
\* find_existing_chunks has returned and the process is in the loop of
\* recognize_audio_chunks
Restored == path = "resume" /\ pc \in {"dispatch", "recognize"}

\* the directory holds chunk0.wav .. chunk(n-1).wav of the chunk sequence
\* segmentation returned, and no other chunk file
PersistedAll ==
    /\ seg_done
    /\ DOMAIN chunk_files = {ChunkFilePath(k) : k \in 0..(Len(segmented) - 1)}
    /\ \A k \in 0..(Len(segmented) - 1) :
          chunk_files[ChunkFilePath(k)] = Export(segmented[k + 1])

\* C5: after a run has written all n chunks as chunk0.wav .. chunk(n-1).wav
\* into a directory with no other chunk file, find_existing_chunks returns
\* the same n chunks, same audio, same index order, also for n > 10.
C5_ResumeRoundTrip ==
    (Restored /\ PersistedAll) =>
        /\ audio_chunks = segmented
        /\ \A k \in 1..Len(chunk_files_sorted) :
              chunk_files_sorted[k] = ChunkFilePath(k - 1)

C5_Witness ==
    /\ Restored
    /\ PersistedAll
    /\ Len(segmented) > 10
    /\ Len(audio_chunks) = Len(segmented)

\* the process ended by itself: the loop of recognize_audio_chunks ran to its
\* end or an exception left it
EndedByItself == pc = "exited" /\ exit_status \in {"ok", "exception"}

\* C1: for every chunk sequence and every vendor outcome per chunk,
\* recognize_audio_chunks emits one result per chunk, the k-th labeled with
\* index k, in increasing order, and the run ends with exit status 0.
C1_OneResultPerChunk ==
    /\ \A k \in 1..Len(stdout) : stdout[k].label = k - 1
    /\ Len(stdout) <= Len(audio_chunks)
    /\ EndedByItself =>
          /\ Len(stdout) = Len(audio_chunks)
          /\ exit_status = "ok"

\* C2: for every vendor, a recognition failure on chunk k (the vendor cannot
\* understand the audio, rejects the request or cannot be reached) never
\* leaves the loop: every later chunk is dispatched and the exit status is 0.
C2_FailureStaysInChunk ==
    /\ exit_status # "exception"
    /\ EndedByItself => i = Len(audio_chunks)

\* C3: whenever a run starts and finds temp_audio.wav, the chunk files on
\* disk are the complete chunk sequence segmentation produced (no file was
\* removed from outside), so the resumed run dispatches all n chunks.
C3_TrackImpliesChunks ==
    (pc = "restore" /\ deleted = 0) => PersistedAll

\* C4: when the resume path is taken and find_existing_chunks finds no
\* chunk file, the run does not go on to dispatch an empty sequence: the
\* caller segments from scratch, so the loop is entered with chunks.
C4_EmptyRestoreResegments ==
    (Restored /\ chunk_files_sorted = <<>>) => audio_chunks # <<>>

Names(files) == {files[k] : k \in 1..Len(files)}

\* the indices of the restored files are not 0 .. n-1
HasGap(files) == \E k \in 1..Len(files) : SortKey(files[k]) # k - 1

\* C9: when the chunk files have a gap in their indices, a resumed run
\* creates no file for a missing index, leaves the content of every existing
\* file unchanged, and labels each result with the index of the file name.
C9_GapIsNoOp ==
    (Restored /\ HasGap(chunk_files_sorted)) =>
        /\ DOMAIN chunk_files = Names(chunk_files_sorted)
        /\ \A k \in 1..Len(chunk_files_sorted) :
              chunk_files[chunk_files_sorted[k]] = Export(audio_chunks[k])
        /\ \A k \in 1..Len(stdout) :
              stdout[k].label = SortKey(chunk_files_sorted[k])

=============================================================================
